---- MODULE Spec2Model ----
(***************************************************************************)
(* A model of the ident_str! procedural macro (src/src/lib.rs).            *)
(*                                                                         *)
(* Spellings (identifier names, literal contents, the evaluated strings of *)
(* declaration values) are sequences of one-character strings, so that the *)
(* two ways the code looks at a value string can be computed character by  *)
(* character: syn::parse_str::<Ident> (tokenise, then parse one            *)
(* identifier) and Ident::new (the string itself must be an identifier).   *)
(*                                                                         *)
(* A token tree is a record [kind, text, span, delim, stream]; only a      *)
(* group has a delimiter and a nested stream.  Spans are the numbers the   *)
(* lexer gave the tokens of the macro input, all >= 1; CallSite is the     *)
(* span of a token built without one.                                      *)
(***************************************************************************)
EXTENDS Integers, Sequences, FiniteSets, TLC

VARIABLES
    input,         \* the token stream handed to the macro
    given,         \* how the input was written: [decls, trailing, body, defect]
    pc,            \* position in ident_str
    decls,         \* Decls.decls still to be processed by the for loop
    body,          \* Decls.body
    map,           \* HashMap<String, Decl>
    errors,        \* Option<syn::Error>: <<>> is None, else the combined messages
    can_continue,  \* the flag of the same name
    tokens,        \* the rewritten body
    built,         \* the strings handed to Ident::new, with the span given
    output         \* the token stream the macro returns

vars == <<input, given, pc, decls, body, map, errors, can_continue, tokens, built, output>>

(***************************************************************************)
(* Bounds of the model.                                                    *)
(***************************************************************************)
MaxDecls == 2
MaxBodyLen == 3

(***************************************************************************)
(* Characters and spellings.                                               *)
(***************************************************************************)
Letters == {"a", "b", "x", "y", "r", "f", "n", "N", "o", "e"}
Digits == {"1"}
White == {" "}

Hash == <<"#">>
Dot == <<".">>
NoneWord == <<"N", "o", "n", "e">>

\* The keywords syn refuses as identifiers (one of them is enough here).
Keywords == {<<"f", "n">>}

\* The span of a token that was built without one (Span::call_site()).
CallSite == 0

(***************************************************************************)
(* Token trees.                                                            *)
(***************************************************************************)
Leaf(kind, text, span) ==
    [kind |-> kind, text |-> text, span |-> span, delim |-> "-", stream |-> <<>>]

IdentTok(text, span) == Leaf("ident", text, span)
PunctTok(text, span) == Leaf("punct", text, span)
LitTok(text, span) == Leaf("lit", text, span)

GroupTok(delim, stream, span) ==
    [kind |-> "group", text |-> <<>>, span |-> span, delim |-> delim, stream |-> stream]

\* Group::new(delimiter, stream): the new group's span is the call site.
GroupNew(delim, stream) == GroupTok(delim, stream, CallSite)

SetSpan(tok, span) == [tok EXCEPT !.span = span]

(***************************************************************************)
(* Ident::new(string, span): accepted only when the string itself is an    *)
(* identifier (keywords included); anything else panics.  A raw spelling   *)
(* r#x needs Ident::new_raw, and surrounding white space is not trimmed.   *)
(***************************************************************************)
IsIdentStart(c) == c \in Letters
IsIdentContinue(c) == c \in Letters \cup Digits

IdentNewAccepts(s) ==
    /\ Len(s) > 0
    /\ IsIdentStart(s[1])
    /\ \A i \in 2..Len(s) : IsIdentContinue(s[i])

(***************************************************************************)
(* syn::parse_str::<Ident>(s): the string is tokenised (white space is     *)
(* skipped, r#name is one raw identifier, a digit starts a literal), and   *)
(* the tokens must be exactly one identifier that is not a keyword.        *)
(***************************************************************************)
\* the length of the longest prefix of s made of identifier characters
RECURSIVE RunLen(_)
RunLen(s) ==
    IF s # <<>> /\ IsIdentContinue(s[1]) THEN 1 + RunLen(Tail(s)) ELSE 0

IsRawStart(s) ==
    /\ Len(s) >= 3
    /\ s[1] = "r"
    /\ s[2] = "#"
    /\ IsIdentStart(s[3])

RECURSIVE LexStr(_)
LexStr(s) ==
    IF s = <<>> THEN <<>>
    ELSE IF s[1] \in White THEN LexStr(Tail(s))
    ELSE IF IsRawStart(s) THEN
        LET n == 2 + RunLen(SubSeq(s, 3, Len(s)))
        IN  <<[kind |-> "ident", text |-> SubSeq(s, 1, n)]>>
                \o LexStr(SubSeq(s, n + 1, Len(s)))
    ELSE IF IsIdentStart(s[1]) THEN
        LET n == RunLen(s)
        IN  <<[kind |-> "ident", text |-> SubSeq(s, 1, n)]>>
                \o LexStr(SubSeq(s, n + 1, Len(s)))
    ELSE IF s[1] \in Digits THEN
        LET n == RunLen(s)
        IN  <<[kind |-> "lit", text |-> SubSeq(s, 1, n)]>>
                \o LexStr(SubSeq(s, n + 1, Len(s)))
    ELSE <<[kind |-> "punct", text |-> <<s[1]>>]>> \o LexStr(Tail(s))

ParseStrIdentOk(s) ==
    LET toks == LexStr(s)
    IN  /\ Len(toks) = 1
        /\ toks[1].kind = "ident"
        /\ toks[1].text \notin Keywords

(***************************************************************************)
(* Value and Decl.                                                         *)
(***************************************************************************)
ValueNone == [tag |-> "None", s |-> <<>>]
ValueMacroString(s) == [tag |-> "MacroString", s |-> s]

\* Value::to_string: Option<String>
ValueToString(value) ==
    IF value.tag = "MacroString"
    THEN [some |-> TRUE, val |-> value.s]
    ELSE [some |-> FALSE, val |-> <<>>]

\* struct Decl: the two tokens of the name, and the value
MkDecl(hash, ident, value) == [hash |-> hash, ident |-> ident, value |-> value]

\* Decl::name_to_tokens: the `#` and the name, whose spans a diagnostic covers
NameToTokens(d) == <<d.hash, d.ident>>

(***************************************************************************)
(* Diagnostics.  A syn::Error is a list of messages; combine appends.      *)
(***************************************************************************)
Diag(kind, name, toks) ==
    [kind |-> kind, name |-> name, spans |-> [i \in 1..Len(toks) |-> toks[i].span]]

append_error(errs, new) == Append(errs, new)

(***************************************************************************)
(* translate_stream.  The walk state st is [out, errors, built, panicked]; *)
(* a panic of Ident::new unwinds through every enclosing call, so once     *)
(* panicked is set nothing more is consumed or emitted.                    *)
(***************************************************************************)
IsSigil(tok) == tok.kind = "punct" /\ tok.text = Hash

\* iter.peek() is Some(_): some token follows the one at i
PeekIsAnyToken(stream, i) == i + 1 <= Len(stream)

\* iter.peek() is Some(TokenTree::Ident(_)), looking past the token at i
PeekIsIdent(stream, i) ==
    /\ i + 1 <= Len(stream)
    /\ stream[i + 1].kind = "ident"

\* the group arm: the new group shadows the old one before set_span runs, so
\* the span it is given is its own
RebuildGroup(group, inner) ==
    LET new == GroupNew(group.delim, inner)
    IN  SetSpan(new, new.span)

\* the error of an unknown `#name`, spanned over the two tokens
UnknownDiag(tok, ident) == Diag("unknown", ident.text, <<tok, ident>>)

RECURSIVE Walk(_, _, _, _)

translate_stream(stream, m, errs, blt) ==
    Walk(stream, 1, m, [out |-> <<>>, errors |-> errs, built |-> blt, panicked |-> FALSE])

\* a `#` followed by the identifier `ident`
Placeholder(tok, ident, m, st) ==
    LET strident == ident.text
    IN  IF strident \in DOMAIN m
        THEN LET value == ValueToString(m[strident].value)
             IN  IF value.some
                 THEN LET st1 == [st EXCEPT !.built =
                                     Append(@, [value |-> value.val, span |-> ident.span])]
                      IN  IF IdentNewAccepts(value.val)
                          THEN [st1 EXCEPT !.out =
                                    Append(@, IdentTok(value.val, ident.span))]
                          ELSE [st1 EXCEPT !.panicked = TRUE]
                 ELSE [st EXCEPT !.out = @ \o <<tok, ident>>]
        ELSE [st EXCEPT !.errors = append_error(@, UnknownDiag(tok, ident))]

Walk(stream, i, m, st) ==
    IF st.panicked \/ i > Len(stream) THEN st
    ELSE LET tok == stream[i]
         IN  CASE tok.kind = "ident" ->
                    Walk(stream, i + 1, m, [st EXCEPT !.out = Append(@, tok)])
               [] tok.kind = "group" ->
                    LET r == translate_stream(tok.stream, m, st.errors, st.built)
                    IN  Walk(stream, i + 1, m,
                             [out |-> Append(st.out, RebuildGroup(tok, r.out)),
                              errors |-> r.errors,
                              built |-> r.built,
                              panicked |-> r.panicked])
               [] IsSigil(tok) ->
                    IF PeekIsIdent(stream, i)
                    THEN Walk(stream, i + 2, m, Placeholder(tok, stream[i + 1], m, st))
                    ELSE Walk(stream, i + 1, m, [st EXCEPT !.out = Append(@, tok)])
               [] OTHER ->
                    Walk(stream, i + 1, m, [st EXCEPT !.out = Append(@, tok)])

(***************************************************************************)
(* The parser: impl Parse for Value, Decl and Decls, over the input from   *)
(* token p on.  The arrow `=>` is one token here.  A parse result is       *)
(* [ok, ..., next]: next is the first token not consumed.                  *)
(***************************************************************************)
Comma == <<",">>
Eq == <<"=">>
Arrow == <<"=", ">">>

IsPunct(inp, p, text) ==
    /\ p <= Len(inp)
    /\ inp[p].kind = "punct"
    /\ inp[p].text = text

\* syn's Ident parser: an identifier token that is not a keyword
IsIdentAt(inp, p) ==
    /\ p <= Len(inp)
    /\ inp[p].kind = "ident"
    /\ inp[p].text \notin Keywords

\* input.peek(syn::token::Brace)
IsBraceAt(inp, p) ==
    /\ p <= Len(inp)
    /\ inp[p].kind = "group"
    /\ inp[p].delim = "brace"

\* Value::parse: the identifier None, else a MacroString (a string literal,
\* whose content is the string)
ParseValue(inp, p) ==
    IF p <= Len(inp) /\ inp[p].kind = "ident" /\ inp[p].text = NoneWord
    THEN [ok |-> TRUE, value |-> ValueNone, next |-> p + 1]
    ELSE IF p <= Len(inp) /\ inp[p].kind = "lit"
    THEN [ok |-> TRUE, value |-> ValueMacroString(inp[p].text), next |-> p + 1]
    ELSE [ok |-> FALSE, value |-> ValueNone, next |-> p]

\* Decl::parse: `#`, the name, `=`, the value, each failing with `?`
ParseDecl(inp, p) ==
    IF IsPunct(inp, p, Hash) /\ IsIdentAt(inp, p + 1) /\ IsPunct(inp, p + 2, Eq)
    THEN LET v == ParseValue(inp, p + 3)
         IN  [ok |-> v.ok, decl |-> MkDecl(inp[p], inp[p + 1], v.value), next |-> v.next]
    ELSE [ok |-> FALSE, decl |-> MkDecl(<<>>, <<>>, ValueNone), next |-> p]

\* the loop of Decls::parse: a declaration, then `,` (and maybe `=>`), or `=>`
RECURSIVE ParseDeclLoop(_, _, _)
ParseDeclLoop(inp, p, acc) ==
    LET d == ParseDecl(inp, p)
    IN  IF ~d.ok THEN [ok |-> FALSE, decls |-> acc, next |-> p]
        ELSE LET ds == Append(acc, d.decl)
             IN  IF IsPunct(inp, d.next, Comma)
                 THEN IF IsPunct(inp, d.next + 1, Arrow)
                      THEN [ok |-> TRUE, decls |-> ds, next |-> d.next + 2]
                      ELSE ParseDeclLoop(inp, d.next + 1, ds)
                 ELSE IF IsPunct(inp, d.next, Arrow)
                 THEN [ok |-> TRUE, decls |-> ds, next |-> d.next + 1]
                 ELSE [ok |-> FALSE, decls |-> ds, next |-> d.next]

\* the body of Decls::parse: the contents of a brace group at the cursor,
\* else every token left
ParseBody(inp, p) ==
    IF IsBraceAt(inp, p)
    THEN [body |-> inp[p].stream, next |-> p + 1]
    ELSE [body |-> SubSeq(inp, p, Len(inp)), next |-> Len(inp) + 1]

\* Decls::parse under parse_macro_input!: tokens left over after the parser
\* returns are an error ("unexpected token")
ParseDecls(inp) ==
    LET l == ParseDeclLoop(inp, 1, <<>>)
        b == ParseBody(inp, l.next)
    IN  IF l.ok /\ b.next > Len(inp)
        THEN [ok |-> TRUE, decls |-> l.decls, body |-> b.body]
        ELSE [ok |-> FALSE, decls |-> <<>>, body |-> <<>>]

(***************************************************************************)
(* The for loop of ident_str, one declaration at a time.                   *)
(***************************************************************************)
\* the lookup key of a declaration: d.ident.to_string()
KeyOf(d) == d.ident.text

\* an insertion that keeps the value a key already has (entry().or_insert())
MapInsertIfVacant(m, k, d) ==
    IF k \in DOMAIN m THEN m ELSE [x \in DOMAIN m \cup {k} |-> IF x = k THEN d ELSE m[x]]

\* map.insert(strident, d): the new value replaces an old one
MapInsert(m, k, d) == [x \in DOMAIN m \cup {k} |-> IF x = k THEN d ELSE m[x]]

\* the test that records an invalid identifier: a string that does not parse
InvalidValue(d) ==
    LET v == ValueToString(d.value)
    IN  v.some /\ ~ParseStrIdentOk(v.val)

\* can_continue after a declaration, were the flag set by every declaration
FlagFromLast(flag, d) == ~InvalidValue(d)

\* can_continue after a declaration: cleared by an invalid one, never set
FlagAfter(flag, d) == IF InvalidValue(d) THEN FALSE ELSE flag

\* the errors after a declaration: a redefinition first, then an invalid value
ErrorsAfter(errs, m, d) ==
    LET e1 == IF KeyOf(d) \in DOMAIN m
              THEN append_error(errs, Diag("redefinition", KeyOf(d), NameToTokens(d)))
              ELSE errs
    IN  IF InvalidValue(d)
        THEN append_error(e1, Diag("invalid", KeyOf(d), NameToTokens(d)))
        ELSE e1

(***************************************************************************)
(* The inputs.  A macro input is written down as declarations (a name and  *)
(* a value each), an optional trailing comma, the arrow and the tokens of  *)
(* the body; the lexer numbers the tokens (their spans) in source order.   *)
(* A defect k > 0 leaves out the k-th token of the part before the body.   *)
(***************************************************************************)
NameA == <<"a">>
NameB == <<"b">>
PlaceholderNames == {NameA, NameB}

StrX == <<"x">>
StrY == <<"y">>
StrRaw == <<"r", "#", "x">>
StrPadded == <<" ", "y">>
StrDigit == <<"1", "x">>
StrKeyword == <<"f", "n">>

\* values whose string syn::parse_str::<Ident> accepts, and values it refuses
AcceptedValues == {ValueMacroString(s) : s \in {StrX, StrY, StrRaw, StrPadded}}
RefusedValues == {ValueMacroString(s) : s \in {StrDigit, StrKeyword}}
DeclValues == {ValueNone} \cup AcceptedValues \cup RefusedValues

RECURSIVE Number(_, _)
Number(stream, n) ==
    IF stream = <<>> THEN [stream |-> <<>>, next |-> n]
    ELSE LET tok == Head(stream)
             inner == Number(tok.stream, n + 1)
             first == IF tok.kind = "group"
                      THEN [tok EXCEPT !.span = n, !.stream = inner.stream]
                      ELSE [tok EXCEPT !.span = n]
             rest == Number(Tail(stream), IF tok.kind = "group" THEN inner.next ELSE n + 1)
         IN  [stream |-> <<first>> \o rest.stream, next |-> rest.next]

Lex(stream) == Number(stream, 1).stream

ValueTokens(v) ==
    IF v.tag = "None" THEN <<IdentTok(NoneWord, 0)>> ELSE <<LitTok(v.s, 0)>>

DeclTokens(d) ==
    <<PunctTok(Hash, 0), IdentTok(d.name, 0), PunctTok(Eq, 0)>> \o ValueTokens(d.value)

RECURSIVE DeclListTokens(_)
DeclListTokens(ds) ==
    IF ds = <<>> THEN <<>>
    ELSE IF Len(ds) = 1 THEN DeclTokens(ds[1])
    ELSE DeclTokens(ds[1]) \o <<PunctTok(Comma, 0)>> \o DeclListTokens(Tail(ds))

HeaderTokens(g) ==
    DeclListTokens(g.decls)
        \o (IF g.trailing THEN <<PunctTok(Comma, 0)>> ELSE <<>>)
        \o <<PunctTok(Arrow, 0)>>

Without(seq, k) ==
    IF k = 0 THEN seq ELSE SubSeq(seq, 1, k - 1) \o SubSeq(seq, k + 1, Len(seq))

Render(g) == Lex(Without(HeaderTokens(g), g.defect) \o g.body)

\* bodies written after the arrow in runs of the whole macro
BodyRef(name) == <<PunctTok(Hash, 0), IdentTok(name, 0)>>

DriverBodies ==
    { <<>>,
      BodyRef(NameA),
      BodyRef(NameB) \o <<PunctTok(Dot, 0)>> \o BodyRef(NameA),
      <<IdentTok(NameA, 0), GroupTok("paren", BodyRef(NameB), 0)>> \o BodyRef(NameA),
      <<GroupTok("brace", BodyRef(NameA) \o <<IdentTok(NameB, 0)>>, 0)>>,
      <<GroupTok("brace", BodyRef(NameA), 0), IdentTok(NameB, 0)>>,
      <<GroupTok("paren", <<>>, 0), GroupTok("brace", BodyRef(NameB), 0)>> }

\* the tokens a defect may leave out: `#`, name, `=`, value or `=>`, not a comma
Defects(g) ==
    {0} \cup {k \in 1..Len(HeaderTokens(g)) : HeaderTokens(g)[k].text # Comma}

WrittenDecl == [name : PlaceholderNames, value : DeclValues]

WrittenDecls == UNION {[1..n -> WrittenDecl] : n \in 0..MaxDecls}

Written(ds, trailing, b, defect) ==
    [decls |-> ds, trailing |-> trailing, body |-> b, defect |-> defect]

NoOutput == [tokens |-> <<>>, errors |-> <<>>]
NoMap == [x \in {} |-> 0]

(***************************************************************************)
(* ident_str.                                                              *)
(***************************************************************************)
InitRun ==
    /\ input = Render(given)
    /\ pc = "parse"
    /\ decls = <<>>
    /\ body = <<>>
    /\ map = NoMap
    /\ errors = <<>>
    /\ can_continue = TRUE
    /\ tokens = <<>>
    /\ built = <<>>
    /\ output = NoOutput

\* the macro is handed an input written to the grammar
Init ==
    /\ \E ds \in WrittenDecls, b \in DriverBodies, trailing \in BOOLEAN :
            /\ trailing => ds # <<>>
            /\ given = Written(ds, trailing, b, 0)
    /\ InitRun

\* the macro is handed an input with at most one token left out
InitParse ==
    /\ \E ds \in WrittenDecls, b \in DriverBodies, trailing \in BOOLEAN :
            /\ trailing => ds # <<>>
            /\ \E k \in Defects(Written(ds, trailing, b, 0)) :
                    given = Written(ds, trailing, b, k)
    /\ InitRun

\* parse_macro_input!(input as Decls): on an error the macro returns the
\* error's tokens at once
Parse ==
    /\ pc = "parse"
    /\ LET r == ParseDecls(input)
       IN  IF r.ok
           THEN /\ decls' = r.decls
                /\ body' = r.body
                /\ pc' = "decls"
                /\ output' = output
           ELSE /\ pc' = "rejected"
                /\ output' = [tokens |-> <<>>, errors |-> <<Diag("parse", <<>>, <<>>)>>]
                /\ UNCHANGED <<decls, body>>
    /\ UNCHANGED <<input, given, map, errors, can_continue, tokens, built>>

\* one iteration of `for d in decls.decls.into_iter()`
DeclStep ==
    /\ pc = "decls"
    /\ decls # <<>>
    /\ LET d == Head(decls)
       IN  /\ errors' = ErrorsAfter(errors, map, d)
           /\ can_continue' = FlagAfter(can_continue, d)
           /\ map' = MapInsert(map, KeyOf(d), d)
    /\ decls' = Tail(decls)
    /\ UNCHANGED <<input, given, pc, body, tokens, built, output>>

\* `if can_continue { translate_stream(decls.body, &map, &mut errors) }`
Rewrite ==
    /\ pc = "decls"
    /\ decls = <<>>
    /\ can_continue
    /\ LET r == translate_stream(body, map, errors, built)
       IN  /\ built' = r.built
           /\ IF r.panicked
              THEN /\ pc' = "panicked"
                   /\ UNCHANGED <<tokens, errors>>
              ELSE /\ pc' = "emit"
                   /\ tokens' = r.out
                   /\ errors' = r.errors
    /\ UNCHANGED <<input, given, decls, body, map, can_continue, output>>

\* `else { debug_assert!(errors.is_some()); TokenStream2::new() }`
SkipRewrite ==
    /\ pc = "decls"
    /\ decls = <<>>
    /\ ~can_continue
    /\ pc' = IF errors # <<>> THEN "emit" ELSE "panicked"
    /\ tokens' = <<>>
    /\ UNCHANGED <<input, given, decls, body, map, errors, can_continue, built, output>>

\* the errors' compile_error! tokens are appended and the stream returned
Emit ==
    /\ pc = "emit"
    /\ output' = [tokens |-> tokens, errors |-> errors]
    /\ pc' = "done"
    /\ UNCHANGED <<input, given, decls, body, map, errors, can_continue, tokens, built>>

Next == Parse \/ DeclStep \/ Rewrite \/ SkipRewrite \/ Emit

Spec == Init /\ [][Next]_vars

SpecParse == InitParse /\ [][Parse]_vars

(***************************************************************************)
(* The rewriter on its own: ident_str at its call of translate_stream,     *)
(* with any body of the bounded shape and any map the for loop can have    *)
(* left with can_continue still set.                                       *)
(***************************************************************************)
BodyLeaves ==
    {PunctTok(Hash, 0), IdentTok(NameA, 0), IdentTok(NameB, 0), PunctTok(Dot, 0)}

FlatBodies == UNION {[1..n -> BodyLeaves] : n \in 0..MaxBodyLen}

\* the stretches i..j of a sequence of n tokens, the empty ones (j = i - 1) too
Stretches(n) == {p \in (1..n + 1) \X (0..n) : p[2] >= p[1] - 1}

\* the token sequence seq with its stretch p replaced by the one token tok
Replaced(seq, p, tok) ==
    SubSeq(seq, 1, p[1] - 1) \o <<tok>> \o SubSeq(seq, p[2] + 1, Len(seq))

\* seq with one stretch of it wrapped in a group
Grouped(seq, delim) ==
    {Replaced(seq, p, GroupTok(delim, SubSeq(seq, p[1], p[2]), 0)) : p \in Stretches(Len(seq))}

\* seq with one stretch wrapped in a group that holds a group in turn
Nested(seq) ==
    UNION {{Replaced(seq, p, GroupTok("brace", g, 0)) :
                g \in Grouped(SubSeq(seq, p[1], p[2]), "paren")} :
            p \in Stretches(Len(seq))}

\* flat, one group, or a group holding a group
Bodies(seq) == {seq} \cup Grouped(seq, "paren") \cup Nested(seq)

\* the declaration of `name` as the parser leaves it: spans of `#` and name
DeclIndex(name) == IF name = NameA THEN 0 ELSE 1

DeclOf(name, value) ==
    MkDecl(PunctTok(Hash, 5 * DeclIndex(name) + 1),
           IdentTok(name, 5 * DeclIndex(name) + 2), value)

\* name -> value; the second name is left out, None or a plain string
RewriterMaps ==
    {m \in UNION {[names -> {ValueNone} \cup AcceptedValues] :
                      names \in SUBSET PlaceholderNames} :
        NameB \in DOMAIN m => m[NameB] \in {ValueNone, ValueMacroString(StrX)}}

BodyBase == 5 * Cardinality(PlaceholderNames) + 1

InitRewrite ==
    /\ \E seq \in FlatBodies :
         \E b \in Bodies(seq) : body = Number(b, BodyBase).stream
    /\ \E m \in RewriterMaps : map = [k \in DOMAIN m |-> DeclOf(k, m[k])]
    /\ input = <<>>
    /\ given = Written(<<>>, FALSE, <<>>, 0)
    /\ pc = "decls"
    /\ decls = <<>>
    /\ errors = <<>>
    /\ can_continue = TRUE
    /\ tokens = <<>>
    /\ built = <<>>
    /\ output = NoOutput

NextRewrite == Rewrite \/ Emit

SpecRewrite == InitRewrite /\ [][NextRewrite]_vars

(***************************************************************************)
(* Reading a token stream for the properties below.  Flat lists a stream   *)
(* in source order, a group as an "open" mark, its contents and a "close"  *)
(* mark; a reference is a `#` directly followed by an identifier, which in *)
(* the flat list is the same as in the stream, marks being no identifiers. *)
(***************************************************************************)
Entry(kind, text, span) == [kind |-> kind, text |-> text, span |-> span]

RECURSIVE Flat(_)
Flat(stream) ==
    IF stream = <<>> THEN <<>>
    ELSE LET t == Head(stream)
         IN  (IF t.kind = "group"
              THEN <<Entry("open", <<t.delim>>, t.span)>> \o Flat(t.stream)
                       \o <<Entry("close", <<t.delim>>, t.span)>>
              ELSE <<Entry(t.kind, t.text, t.span)>>)
                 \o Flat(Tail(stream))

IsMark(e) == e.kind \in {"open", "close"}

Spelt(e) == [kind |-> e.kind, text |-> e.text]
Spelling(f) == [i \in 1..Len(f) |-> Spelt(f[i])]

IsRefAt(f, i) ==
    /\ i + 1 <= Len(f)
    /\ f[i].kind = "punct"
    /\ f[i].text = Hash
    /\ f[i + 1].kind = "ident"

RefStarts(f) == {i \in 1..Len(f) : IsRefAt(f, i)}

\* what the map says of a name: "resolved", "absent" or "missing"
Binding(m, name) ==
    IF name \notin DOMAIN m THEN "missing"
    ELSE IF m[name].value.tag = "None" THEN "absent"
    ELSE "resolved"

RefsBound(f, m, how) == {i \in RefStarts(f) : Binding(m, f[i + 1].text) = how}

\* the spans of the leaves of a flat list
LeafSpans(f) == {f[i].span : i \in {j \in 1..Len(f) : ~IsMark(f[j])}}

\* the number of group marks before position i: which group position i is in
MarksBefore(f, i) == Cardinality({j \in 1..i - 1 : IsMark(f[j])})

\* open marks less close marks before position i
DepthAt(f, i) ==
    Cardinality({j \in 1..i - 1 : f[j].kind = "open"})
        - Cardinality({j \in 1..i - 1 : f[j].kind = "close"})

\* translate_stream has been called on the body (and returned or panicked)
RewriterRan == can_continue /\ pc \in {"emit", "done", "panicked"}
RewriterReturned == can_continue /\ pc \in {"emit", "done"}

\* the string is itself one identifier of the grammar, plain or raw, with
\* nothing around it: the narrowest reading of "a valid identifier string"
\* (every such string also passes the check of the for loop)
IsIdentifierString(s) ==
    /\ LexStr(s) = <<[kind |-> "ident", text |-> s]>>
    /\ s \notin Keywords

IdentifierValue(v) == v.tag = "MacroString" => IsIdentifierString(v.s)

(***************************************************************************)
(* C1.  Substitution: with every value a valid identifier string, each     *)
(* reference `#` P bound to Resolved(s) becomes exactly one identifier     *)
(* spelt s, every token outside the references and every group delimiter   *)
(* is copied in its original order, and the `#` of no such reference is    *)
(* left in the output.  The references bound otherwise (the cases of C2    *)
(* and C4) are set aside on both sides, by their spans.                    *)
(***************************************************************************)
\* the body's flat list with each Resolved reference replaced by its string
\* and the tokens of every other reference left out
RECURSIVE Substituted(_, _, _)
Substituted(f, i, m) ==
    IF i > Len(f) THEN <<>>
    ELSE IF IsRefAt(f, i)
    THEN (IF Binding(m, f[i + 1].text) = "resolved"
          THEN <<[kind |-> "ident", text |-> m[f[i + 1].text].value.s]>>
          ELSE <<>>) \o Substituted(f, i + 2, m)
    ELSE <<Spelt(f[i])>> \o Substituted(f, i + 1, m)

OtherRefSpans(f, m) ==
    UNION {{f[i].span, f[i + 1].span} :
              i \in RefsBound(f, m, "absent") \cup RefsBound(f, m, "missing")}

WithoutSpans(f, spans) == SelectSeq(f, LAMBDA e : IsMark(e) \/ e.span \notin spans)

C1_Substitution ==
    (RewriterRan /\ \A k \in DOMAIN map : IdentifierValue(map[k].value)) =>
        LET f == Flat(body)
            o == Flat(tokens)
        IN  /\ pc # "panicked"
            /\ Spelling(WithoutSpans(o, OtherRefSpans(f, map))) = Substituted(f, 1, map)
            /\ \A i \in RefsBound(f, map, "resolved") :
                  /\ f[i].span \notin LeafSpans(o)
                  /\ Cardinality({j \in 1..Len(o) : o[j].span = f[i + 1].span}) = 1

(***************************************************************************)
(* C2.  Absence: each reference `#` k bound to Absent is in the output as  *)
(* the same two tokens, `#` then k, next to each other, in the same group  *)
(* and at the same depth as in the body, and no diagnostic covers it.      *)
(***************************************************************************)
PassedThrough(f, i, o) ==
    \E j \in 1..Len(o) - 1 :
        /\ o[j] = f[i]
        /\ o[j + 1] = f[i + 1]
        /\ MarksBefore(o, j) = MarksBefore(f, i)
        /\ DepthAt(o, j) = DepthAt(f, i)

C2_AbsentPassThrough ==
    RewriterRan =>
        LET f == Flat(body)
            o == Flat(tokens)
        IN  \A i \in RefsBound(f, map, "absent") :
                /\ PassedThrough(f, i, o)
                /\ \A n \in 1..Len(errors) :
                      errors[n].spans # <<f[i].span, f[i + 1].span>>

(***************************************************************************)
(* C3.  Pass-through: a body with no `#` directly followed by an           *)
(* identifier comes out token for token as it went in (kinds, spellings,   *)
(* delimiters and nesting; spans are C9's), whatever the map, and nothing  *)
(* is recorded.                                                            *)
(***************************************************************************)
RECURSIVE Unspanned(_)
Unspanned(stream) ==
    [i \in 1..Len(stream) |->
        [stream[i] EXCEPT !.span = 0, !.stream = Unspanned(stream[i].stream)]]

C3_PassThrough ==
    (RewriterRan /\ RefStarts(Flat(body)) = {}) =>
        /\ pc # "panicked"
        /\ Unspanned(tokens) = Unspanned(body)
        /\ errors = <<>>
        /\ built = <<>>

\* a body with a bare identifier that spells a Resolved name and a `#` that
\* no identifier follows has been rewritten
C3_Witness ==
    /\ RewriterReturned
    /\ RefStarts(Flat(body)) = {}
    /\ \E i \in 1..Len(body) :
          /\ body[i].kind = "ident"
          /\ Binding(map, body[i].text) = "resolved"
    /\ \E i \in 1..Len(body) : IsSigil(body[i])
    /\ \E i \in 1..Len(body) : body[i].kind = "group" /\ body[i].stream # <<>>

(***************************************************************************)
(* C4.  Undefined placeholders: the occurrences of `#P` with P missing     *)
(* from the map are reported one diagnostic each, naming P, in source      *)
(* order (left to right, depth first); none of their tokens is emitted;    *)
(* and the walk goes on after each: every later token of the body is       *)
(* emitted, or replaced if it belongs to a Resolved reference.             *)
(***************************************************************************)
\* the missing references of a flat list, in order, as their diagnostics
RECURSIVE MissingDiags(_, _, _)
MissingDiags(f, i, m) ==
    IF i > Len(f) THEN <<>>
    ELSE IF IsRefAt(f, i) /\ Binding(m, f[i + 1].text) = "missing"
    THEN <<[kind |-> "unknown", name |-> f[i + 1].text,
            spans |-> <<f[i].span, f[i + 1].span>>]>> \o MissingDiags(f, i + 2, m)
    ELSE MissingDiags(f, i + 1, m)

C4_UndefinedCollected ==
    RewriterRan =>
        LET f == Flat(body)
            o == Flat(tokens)
            missing == RefsBound(f, map, "missing")
            resolved == RefsBound(f, map, "resolved")
        IN  /\ SelectSeq(errors, LAMBDA e : e.kind = "unknown") = MissingDiags(f, 1, map)
            /\ \A i \in missing :
                  /\ {f[i].span, f[i + 1].span} \cap LeafSpans(o) = {}
                  /\ \A k \in i + 2..Len(f) :
                        (~IsMark(f[k]) /\ k \notin missing /\ (k - 1) \notin missing) =>
                            IF k \in resolved THEN f[k].span \notin LeafSpans(o)
                            ELSE f[k].span \in LeafSpans(o)

(***************************************************************************)
(* C9.  Spans: every leaf of the output is a leaf of the body with its     *)
(* span, or the identifier built for a Resolved reference with the span of *)
(* the reference's identifier P; every group of the output has the span    *)
(* and delimiter of the group of the body it was rebuilt from, which is    *)
(* the group at the same place among the groups.                           *)
(***************************************************************************)
Opens(f) == SelectSeq(f, LAMBDA e : e.kind = "open")

C9_SpansPreserved ==
    RewriterReturned =>
        LET f == Flat(body)
            o == Flat(tokens)
        IN  /\ \A j \in 1..Len(o) :
                  ~IsMark(o[j]) =>
                      \/ \E i \in 1..Len(f) : f[i] = o[j]
                      \/ \E i \in RefsBound(f, map, "resolved") :
                            /\ o[j].kind = "ident"
                            /\ o[j].span = f[i + 1].span
            /\ Opens(o) = Opens(f)

(***************************************************************************)
(* Reading a run of the whole macro.  given.decls is the declaration list  *)
(* as written, in source order.                                            *)
(***************************************************************************)
\* the input was parsed and every declaration has been through the for loop
LoopDone == pc \in {"decls", "emit", "done", "panicked"} /\ decls = <<>>

ValueInvalid(v) == v.tag = "MacroString" /\ ~ParseStrIdentOk(v.s)

SomeInvalid(ds) == \E i \in 1..Len(ds) : ValueInvalid(ds[i].value)

\* the declarations of a name already declared by an earlier one
Redeclarations(ds) == {i \in 1..Len(ds) : \E j \in 1..i - 1 : ds[j].name = ds[i].name}

FirstOf(ds, name) == ds[CHOOSE i \in 1..Len(ds) :
                          /\ ds[i].name = name
                          /\ \A j \in 1..i - 1 : ds[j].name # name]

LastOf(ds, name) == ds[CHOOSE i \in 1..Len(ds) :
                         /\ ds[i].name = name
                         /\ \A j \in i + 1..Len(ds) : ds[j].name # name]

Declared(ds) == {ds[i].name : i \in 1..Len(ds)}

KindOnly(errs, kind) == SelectSeq(errs, LAMBDA e : e.kind = kind)

(***************************************************************************)
(* C5.  An invalid identifier anywhere in the list stops the rewriting:    *)
(* when the loop ends the flag that guards the call of translate_stream is *)
(* clear, nothing is handed to Ident::new, no body token is emitted, the   *)
(* debug_assert does not fire, and the macro returns diagnostics only, at  *)
(* least one of them and none for an unknown placeholder.                  *)
(***************************************************************************)
C5_InvalidSuppressesBody ==
    (LoopDone /\ SomeInvalid(given.decls)) =>
        /\ ~can_continue
        /\ pc # "panicked"
        /\ tokens = <<>>
        /\ built = <<>>
        /\ errors # <<>>
        /\ KindOnly(errors, "unknown") = <<>>
        /\ pc = "done" => (output.tokens = <<>> /\ output.errors = errors)

\* the macro has returned for an invalid declaration whose name a later,
\* valid declaration redeclares, with a body that uses an undeclared name
C5_Witness ==
    /\ pc = "done"
    /\ Len(given.decls) = 2
    /\ ValueInvalid(given.decls[1].value)
    /\ given.decls[2].name = given.decls[1].name
    /\ given.decls[2].value \in AcceptedValues
    /\ RefsBound(Flat(body), map, "missing") # {}

(***************************************************************************)
(* C6.  Redefinition accumulates: each declaration of a name an earlier    *)
(* declaration declared records exactly one redefinition diagnostic, on    *)
(* its own `#name`; and with no invalid identifier in the list (every      *)
(* value None or a valid identifier string) the macro still rewrites the   *)
(* body and returns it with those diagnostics.                             *)
(***************************************************************************)
RedefinitionSpans(errs) ==
    LET r == KindOnly(errs, "redefinition") IN [i \in 1..Len(r) |-> r[i].spans]

\* the spans of `#name` of the i-th declaration of a list parsed whole
NameSpansOf(ds, i) ==
    LET before == Len(DeclListTokens(SubSeq(ds, 1, i - 1))) + (IF i > 1 THEN 1 ELSE 0)
    IN  <<before + 1, before + 2>>

RECURSIVE RedeclaredSpans(_, _)
RedeclaredSpans(ds, i) ==
    IF i > Len(ds) THEN <<>>
    ELSE (IF i \in Redeclarations(ds) THEN <<NameSpansOf(ds, i)>> ELSE <<>>)
             \o RedeclaredSpans(ds, i + 1)

C6_RedefinitionAccumulates ==
    LoopDone =>
        /\ RedefinitionSpans(errors) = RedeclaredSpans(given.decls, 1)
        /\ (\A i \in 1..Len(given.decls) : IdentifierValue(given.decls[i].value)) =>
              /\ can_continue
              /\ pc # "panicked"
              /\ pc = "done" =>
                    /\ output.tokens = tokens
                    /\ RedefinitionSpans(output.errors) = RedeclaredSpans(given.decls, 1)
                    /\ Spelling(WithoutSpans(Flat(tokens),
                                             OtherRefSpans(Flat(body), map)))
                           = Substituted(Flat(body), 1, map)

(***************************************************************************)
(* C7.  Which binding a redeclared name keeps.                             *)
(***************************************************************************)
\* every `#name` the rewriter met was treated by the declaration binding[name]:
\* its string was the one handed to Ident::new, or the two tokens were passed on
TreatedBy(ds, binding) ==
    LET f == Flat(body)
        o == Flat(tokens)
        bound == {i \in RefStarts(f) : f[i + 1].text \in Declared(ds)}
    IN  /\ \A n \in 1..Len(built) :
              \E i \in bound :
                  /\ built[n].span = f[i + 1].span
                  /\ binding[f[i + 1].text].value = ValueMacroString(built[n].value)
        /\ RewriterReturned =>
              \A i \in bound :
                  IF binding[f[i + 1].text].value.tag = "None"
                  THEN PassedThrough(f, i, o)
                  ELSE /\ f[i].span \notin LeafSpans(o)
                       /\ \E j \in 1..Len(o) :
                             /\ o[j].span = f[i + 1].span
                             /\ o[j].text = binding[f[i + 1].text].value.s

\* C7 as claimed: the first declaration of a name is the one the map keeps,
\* and every `#name` the rewriter meets is treated by it
C7_FirstBindingKept ==
    LoopDone =>
        LET first == [k \in Declared(given.decls) |-> FirstOf(given.decls, k)]
        IN  /\ DOMAIN map = Declared(given.decls)
            /\ \A k \in DOMAIN map : map[k].value = first[k].value
            /\ TreatedBy(given.decls, first)

\* C7 as it holds: the last declaration of a name is the one the map keeps,
\* and every `#name` the rewriter meets is treated by it
C7_LastBindingKept ==
    LoopDone =>
        LET last == [k \in Declared(given.decls) |-> LastOf(given.decls, k)]
        IN  /\ DOMAIN map = Declared(given.decls)
            /\ \A k \in DOMAIN map : map[k].value = last[k].value
            /\ TreatedBy(given.decls, last)

\* a name declared twice with two different plain strings, used in the body,
\* and the macro has returned
C7_Witness ==
    /\ pc = "done"
    /\ Len(given.decls) = 2
    /\ given.decls[1].name = given.decls[2].name
    /\ given.decls[1].value = ValueMacroString(StrX)
    /\ given.decls[2].value = ValueMacroString(StrY)
    /\ RefsBound(Flat(body), map, "resolved") # {}

(***************************************************************************)
(* C8.  Identifier construction cannot fail: every string the rewriter     *)
(* hands to Ident::new is one Ident::new accepts, so no run panics there.  *)
(***************************************************************************)
C8_ConstructionCannotFail ==
    /\ \A n \in 1..Len(built) : IdentNewAccepts(built[n].value)
    /\ (can_continue /\ pc = "panicked") => FALSE

(***************************************************************************)
(* C10.  The parser accepts exactly the grammar: an input written as one   *)
(* or more declarations, an optional trailing comma, `=>` and a body is    *)
(* accepted with the declarations in source order and with the body given: *)
(* the contents of the brace group if the body is exactly one brace group, *)
(* else every token after the arrow; an input with a `#`, a name, an `=`,  *)
(* a value or the `=>` left out (or with no declaration) is rejected.      *)
(***************************************************************************)
StatedBody(after) ==
    IF Len(after) = 1 /\ after[1].kind = "group" /\ after[1].delim = "brace"
    THEN after[1].stream
    ELSE after

ParsedAs(ds) ==
    /\ Len(decls) = Len(ds)
    /\ \A i \in 1..Len(ds) :
          /\ KeyOf(decls[i]) = ds[i].name
          /\ decls[i].value = ds[i].value

C10_ParserAcceptsGrammar ==
    pc # "parse" =>
        IF given.defect = 0 /\ given.decls # <<>>
        THEN /\ pc # "rejected"
             /\ pc = "decls" /\ Len(decls) = Len(given.decls) =>
                   /\ ParsedAs(given.decls)
                   /\ Unspanned(body) = StatedBody(given.body)
        ELSE pc = "rejected"

====
